---- MODULE Spec2Model ----
(***************************************************************************)
(* Model of detect_bundled_sets.py: the schema validator                   *)
(* (validate_set_structure), the directory scan (detect_bundled_sets),     *)
(* the manifest writer (update_index_file) and the driver (main).          *)
(***************************************************************************)
EXTENDS Integers, Sequences, FiniteSets, TLC

VARIABLES
    dir_exists,     \* BUNDLED_DIR.exists()
    fs,             \* contents of the files of BUNDLED_DIR, by filename
    pc,             \* position of main: idle, loop, main, update, done; validate, validated
    json_files,     \* detect_bundled_sets: sorted(json_files)
    idx,            \* detect_bundled_sets: number of files of json_files already analysed
    detected_sets,  \* detect_bundled_sets / main: the result records
    valid_count,    \* main: valid_count
    invalid_count,  \* main: invalid_count
    write_outcome,  \* update_index_file of this run: none, ok, failed
    written,        \* filenames this run wrote into index.json
    escaped,        \* an exception propagated out of main
    fs_before,      \* fs when the current run started
    since_run,      \* none: directory edited since the last run (or no run yet);
                    \* ok / failed: the last run returned (its write did not fail /
                    \* failed) and nothing was edited since
    data,           \* input of validate_set_structure
    vresult         \* output of validate_set_structure

vars == <<dir_exists, fs, pc, json_files, idx, detected_sets, valid_count,
          invalid_count, write_outcome, written, escaped, fs_before, since_run,
          data, vresult>>

(***************************************************************************)
(* Decoded JSON values (what json.load returns), tagged by Python type.    *)
(***************************************************************************)
Null == [t |-> "NoneType"]
Num(n) == [t |-> "int", n |-> n]
Str(s) == [t |-> "str", s |-> s]
Arr(items) == [t |-> "list", items |-> items]
Obj(f) == [t |-> "dict", f |-> f]

\* an object holding the keys ks, with the values vals gives them
ObjOf(ks, vals) == Obj([k \in ks |-> vals[k]])

isinstance_dict(v) == v.t = "dict"
isinstance_list(v) == v.t = "list"
isinstance_str(v) == v.t = "str"

\* key in d
Has(d, key) == key \in DOMAIN d.f

\* d.get(key, default)
Get(d, key, default) == IF Has(d, key) THEN d.f[key] ELSE default

(***************************************************************************)
(* validate_set_structure.  Loop indices are Python's (from 0); the        *)
(* element at Python index i is items[i + 1].                              *)
(***************************************************************************)
QuestionPrefix(i, j) == "Card " \o ToString(i + 1) \o ", Question " \o ToString(j + 1)

CardPrefix(i) == "Card " \o ToString(i + 1)

question_errors(i, j, question) ==
    IF ~isinstance_dict(question)
    THEN <<QuestionPrefix(i, j) \o " is not an object">>
    ELSE IF ~Has(question, "text")
    THEN <<QuestionPrefix(i, j) \o " missing 'text' field">>
    ELSE IF ~isinstance_str(question.f["text"])
    THEN <<QuestionPrefix(i, j) \o " 'text' must be a string">>
    ELSE <<>>

RECURSIVE questions_loop(_, _, _)
questions_loop(i, questions, j) ==
    IF j >= Len(questions) THEN <<>>
    ELSE question_errors(i, j, questions[j + 1]) \o questions_loop(i, questions, j + 1)

\* a validator that forgets the 'answer' check
answer_errors_unchecked(i, card) == <<>>

answer_errors(i, card) ==
    IF ~Has(card, "answer") THEN <<CardPrefix(i) \o " missing 'answer' field">> ELSE <<>>

questions_errors(i, card) ==
    IF ~Has(card, "questions")
    THEN <<CardPrefix(i) \o " missing 'questions' field">>
    ELSE IF ~isinstance_list(card.f["questions"])
    THEN <<CardPrefix(i) \o " 'questions' must be an array">>
    ELSE questions_loop(i, card.f["questions"].items, 0)

\* a validator whose card loop breaks, instead of continuing, at a card that is
\* not an object
RECURSIVE cards_loop_break(_, _)
cards_loop_break(cards, i) ==
    IF i >= Len(cards) THEN <<>>
    ELSE LET card == cards[i + 1] IN
         IF ~isinstance_dict(card)
         THEN <<CardPrefix(i) \o " is not an object">>
         ELSE answer_errors(i, card) \o questions_errors(i, card) \o cards_loop_break(cards, i + 1)

RECURSIVE cards_loop(_, _)
cards_loop(cards, i) ==
    IF i >= Len(cards) THEN <<>>
    ELSE LET card == cards[i + 1] IN
         IF ~isinstance_dict(card)
         THEN <<CardPrefix(i) \o " is not an object">> \o cards_loop(cards, i + 1)
         ELSE answer_errors(i, card) \o questions_errors(i, card) \o cards_loop(cards, i + 1)

name_errors(d) ==
    IF ~Has(d, "name") THEN <<"Missing 'name' field">>
    ELSE IF ~isinstance_str(d.f["name"]) THEN <<"'name' must be a string">>
    ELSE <<>>

cards_errors(d) ==
    IF ~Has(d, "cards") THEN <<"Missing 'cards' field">>
    ELSE IF ~isinstance_list(d.f["cards"]) THEN <<"'cards' must be an array">>
    ELSE cards_loop(d.f["cards"].items, 0)

validate_set_structure(d) ==
    IF ~isinstance_dict(d)
    THEN [is_valid |-> FALSE, errors |-> <<"Set is not a JSON object">>]
    ELSE LET errors == name_errors(d) \o cards_errors(d)
         IN [is_valid |-> Len(errors) = 0, errors |-> errors]

(***************************************************************************)
(* Documents the validator is checked on: every document whose cards and   *)
(* questions together number at most MaxElems.                             *)
(***************************************************************************)
MaxElems == 4

EmptyObj == Obj([k \in {} |-> Null])

QuestionValues ==
    { Str("q"), EmptyObj,
      ObjOf({"text"}, [text |-> Str("q")]),
      ObjOf({"text"}, [text |-> Num(1)]) }

\* the cards that, with their questions, count n elements
CardsOfSize(n) ==
    (IF n = 1
     THEN {Num(7)} \cup
          { ObjOf(ks, [answer |-> Null, questions |-> Str("x")]) :
                ks \in SUBSET {"answer", "questions"} }
     ELSE {})
    \cup
    { ObjOf(ks \cup {"questions"}, [answer |-> Null, questions |-> Arr(qs)]) :
          ks \in SUBSET {"answer"}, qs \in [1..(n - 1) -> QuestionValues] }

CardSeqs[n \in 0..MaxElems] ==
    IF n = 0 THEN {<<>>}
    ELSE UNION { { <<c>> \o s : c \in CardsOfSize(k), s \in CardSeqs[n - k] } : k \in 1..n }

\* the documents of at most n cards and questions
Docs(n) ==
    {Null, Num(1), Str("s"), Arr(<<>>)} \cup
    { ObjOf(ks, [name |-> nm, cards |-> cv]) :
          ks \in SUBSET {"name", "cards"},
          nm \in {Str("Set A"), Num(3)},
          cv \in {Str("none")} \cup { Arr(s) : s \in UNION { CardSeqs[m] : m \in 0..n } } }

(***************************************************************************)
(* The directory: BUNDLED_DIR and INDEX_FILE, filenames and their order.   *)
(***************************************************************************)
INDEX_FILE == "index.json"

SetNames == {"a.json", "b.json"}

FileNames == SetNames \cup {"notes.txt", INDEX_FILE}

\* the code points of a filename
Chars(n) ==
    CASE n = "a.json" -> <<97, 46, 106, 115, 111, 110>>
      [] n = "b.json" -> <<98, 46, 106, 115, 111, 110>>
      [] n = "index.json" -> <<105, 110, 100, 101, 120, 46, 106, 115, 111, 110>>
      [] n = "notes.txt" -> <<110, 111, 116, 101, 115, 46, 116, 120, 116>>

\* fnmatch(name, "*.json")
glob_matches(n) ==
    LET c == Chars(n) IN
    /\ Len(c) >= 5
    /\ SubSeq(c, Len(c) - 4, Len(c)) = <<46, 106, 115, 111, 110>>

\* Path.__lt__ for two paths of the same directory: the names compared as strings
RECURSIVE seq_less(_, _)
seq_less(a, b) ==
    IF b = <<>> THEN FALSE
    ELSE IF a = <<>> THEN TRUE
    ELSE IF Head(a) # Head(b) THEN Head(a) < Head(b)
    ELSE seq_less(Tail(a), Tail(b))

path_less(m, n) == seq_less(Chars(m), Chars(n))

RECURSIVE insert_sorted(_, _)
insert_sorted(x, s) ==
    IF s = <<>> THEN <<x>>
    ELSE IF path_less(Head(s), x) THEN <<Head(s)>> \o insert_sorted(x, Tail(s))
    ELSE <<x>> \o s

\* a scan that processes the files in the order glob listed them
unsorted(s) == s

\* sorted(json_files)
RECURSIVE sorted(_)
sorted(s) == IF s = <<>> THEN <<>> ELSE insert_sorted(Head(s), sorted(Tail(s)))

(***************************************************************************)
(* File contents.                                                          *)
(***************************************************************************)
Absent == [t |-> "absent"]
Unreadable == [t |-> "unreadable"]
Malformed == [t |-> "malformed", msg |-> "Expecting value: line 1 column 1 (char 0)"]
Json(v) == [t |-> "json", v |-> v]

GoodCard == ObjOf({"answer", "questions"},
                  [answer |-> Str("x"),
                   questions |-> Arr(<<ObjOf({"text"}, [text |-> Str("q1")])>>)])

SetA == ObjOf({"name", "cards"}, [name |-> Str("Set A"), cards |-> Arr(<<GoodCard>>)])

SetDated == ObjOf({"name", "cards", "exportedAt"},
                  [name |-> Str("Dated"), cards |-> Arr(<<GoodCard, GoodCard>>),
                   exportedAt |-> Str("2024-01-01T00:00:00Z")])

SetNullDate == ObjOf({"name", "cards", "exportedAt"},
                     [name |-> Str("Empty"), cards |-> Arr(<<>>), exportedAt |-> Null])

NoName == ObjOf({"cards"}, [cards |-> Arr(<<>>)])

BadName == ObjOf({"name", "cards"}, [name |-> Num(3), cards |-> Str("none")])

SetContents ==
    { Unreadable, Malformed, Json(SetA), Json(SetDated), Json(SetNullDate),
      Json(NoName), Json(BadName), Json(Arr(<<>>)) }

\* what index_data = {"files": valid_files} serialises to and parses back as
json_dump_index(valid_files) ==
    ObjOf({"files"}, [files |-> Arr([k \in 1..Len(valid_files) |-> Str(valid_files[k])])])

\* contents an editor may give a file
ContentsFor(n) ==
    IF n \in SetNames THEN SetContents
    ELSE IF n = INDEX_FILE THEN {Json(json_dump_index(<<"b.json", "a.json">>)), Json(SetA)}
    ELSE {Malformed}

(***************************************************************************)
(* detect_bundled_sets: discovery.                                         *)
(***************************************************************************)
\* the orders in which BUNDLED_DIR.glob("*.json") may list the directory
glob(files) ==
    LET found == {n \in FileNames : files[n] # Absent /\ glob_matches(n)} IN
    { s \in [1..Cardinality(found) -> found] : \A k, l \in DOMAIN s : k # l => s[k] # s[l] }

\* a filter that keeps the reserved file
keep_index(f) == TRUE

\* f.name != "index.json"
not_index(f) == f # INDEX_FILE

\* [f for f in json_files if f.name != "index.json"]
exclude_index(listing) == SelectSeq(listing, not_index)

(***************************************************************************)
(* detect_bundled_sets: one file.  The try body either appends a record or *)
(* raises; the except clauses turn what it raises into a record.           *)
(***************************************************************************)
Unknown == Str("Unknown")

\* a record that reads the key "exported_at", which no document carries
valid_record_no_export(file, d) ==
    [file |-> file, name |-> Get(d, "name", Unknown),
     card_count |-> Len(Get(d, "cards", Arr(<<>>)).items),
     exported_at |-> Str("Not specified"), valid |-> TRUE]

\* lines 94-108
valid_record(file, d) ==
    [file |-> file, name |-> Get(d, "name", Unknown),
     card_count |-> Len(Get(d, "cards", Arr(<<>>)).items),
     exported_at |-> Get(d, "exportedAt", Str("Not specified")), valid |-> TRUE]

\* lines 114-119, 123-128, 131-136
invalid_record(file, name, errors) ==
    [file |-> file, name |-> name, valid |-> FALSE, errors |-> errors]

Raise(exc, msg) == [exc |-> exc, msg |-> msg]
Appended(rec) == [exc |-> "none", rec |-> rec]

\* lines 88-119
try_body(file, content) ==
    IF content.t = "unreadable"
    THEN Raise("PermissionError", "[Errno 13] Permission denied: 'bundled/" \o file \o "'")
    ELSE IF content.t = "malformed"
    THEN Raise("JSONDecodeError", content.msg)
    ELSE LET d == content.v
             r == validate_set_structure(d)
         IN IF r.is_valid
            THEN Appended(valid_record(file, d))
            ELSE IF ~isinstance_dict(d)
            THEN Raise("AttributeError", "'" \o d.t \o "' object has no attribute 'get'")
            ELSE Appended(invalid_record(file, Get(d, "name", Unknown), r.errors))

\* the classes an exception is an instance of
Mro(exc) ==
    CASE exc = "JSONDecodeError" -> {"JSONDecodeError", "ValueError", "Exception"}
      [] exc = "PermissionError" -> {"PermissionError", "OSError", "Exception"}
      [] exc = "AttributeError" -> {"AttributeError", "Exception"}

\* a scan whose second clause reads "except OSError"
except_clause_oserror(exc) ==
    IF "JSONDecodeError" \in Mro(exc) THEN "decode"
    ELSE IF "OSError" \in Mro(exc) THEN "generic"
    ELSE "propagate"

\* the except clause that handles exc: lines 121 and 129
except_clause(exc) ==
    IF "JSONDecodeError" \in Mro(exc) THEN "decode"
    ELSE IF "Exception" \in Mro(exc) THEN "generic"
    ELSE "propagate"

\* lines 87-136: the record appended for one file, or the exception that leaves the loop
analyze(file, content) ==
    LET body == try_body(file, content) IN
    IF body.exc = "none" THEN body
    ELSE IF except_clause(body.exc) = "decode"
    THEN Appended(invalid_record(file, Unknown, <<"JSON decode error: " \o body.msg>>))
    ELSE IF except_clause(body.exc) = "generic"
    THEN Appended(invalid_record(file, Unknown, <<body.msg>>))
    ELSE body

(***************************************************************************)
(* update_index_file and main.                                             *)
(***************************************************************************)
\* a filter that keeps every record
is_any_record(s) == TRUE

\* s.get("valid", False)
is_valid_record(s) == s.valid

record_file(records) == [k \in 1..Len(records) |-> records[k].file]

\* a writer that lists every scanned file
all_files(records) == record_file(records)

\* [s["file"] for s in detected_sets if s.get("valid", False)]
valid_files_of(records) == record_file(SelectSeq(records, is_valid_record))

\* a writer that writes the manifest even when it is empty
always_write(valid_files) == TRUE

\* line 147: the writer goes on to open the file
has_valid_files(valid_files) == valid_files # <<>>

\* sum(1 for s in detected_sets if s.get("valid", False))
count_valid(records) == Cardinality({k \in 1..Len(records) : records[k].valid})

NoResult == [is_valid |-> FALSE, errors |-> <<>>]

(***************************************************************************)
(* The state machine.  A run of main is the steps Detect, AnalyzeFile (one *)
(* per file), ReturnEmpty or Summarize, UpdateIndex, Return; the program   *)
(* is single-threaded, and the directory is edited only between runs.      *)
(***************************************************************************)
Init ==
    /\ dir_exists = FALSE
    /\ fs = [n \in FileNames |-> Absent]
    /\ pc = "idle"
    /\ json_files = <<>>
    /\ idx = 0
    /\ detected_sets = <<>>
    /\ valid_count = 0
    /\ invalid_count = 0
    /\ write_outcome = "none"
    /\ written = <<>>
    /\ escaped = FALSE
    /\ fs_before = [n \in FileNames |-> Absent]
    /\ since_run = "none"
    /\ data = Null
    /\ vresult = NoResult

run_locals == <<json_files, idx, detected_sets, valid_count, invalid_count,
                write_outcome, written, escaped, fs_before>>

\* the environment: the directory and its files are created, edited and removed
MakeDir ==
    /\ pc = "idle" /\ ~dir_exists
    /\ dir_exists' = TRUE
    /\ since_run' = "none"
    /\ UNCHANGED <<fs, pc, run_locals, data, vresult>>

RemoveDir ==
    /\ pc = "idle" /\ dir_exists
    /\ dir_exists' = FALSE
    /\ fs' = [n \in FileNames |-> Absent]
    /\ since_run' = "none"
    /\ UNCHANGED <<pc, run_locals, data, vresult>>

WriteFile ==
    /\ pc = "idle" /\ dir_exists
    /\ \E n \in FileNames : \E c \in ContentsFor(n) :
          /\ fs[n] # c
          /\ fs' = [fs EXCEPT ![n] = c]
    /\ since_run' = "none"
    /\ UNCHANGED <<dir_exists, pc, run_locals, data, vresult>>

DeleteFile ==
    /\ pc = "idle" /\ dir_exists
    /\ \E n \in FileNames :
          /\ fs[n] # Absent
          /\ fs' = [fs EXCEPT ![n] = Absent]
    /\ since_run' = "none"
    /\ UNCHANGED <<dir_exists, pc, run_locals, data, vresult>>

\* lines 68-82, and the start of main
Detect ==
    /\ pc = "idle"
    /\ fs_before' = fs
    /\ write_outcome' = "none"
    /\ written' = <<>>
    /\ escaped' = FALSE
    /\ detected_sets' = <<>>
    /\ idx' = 0
    /\ valid_count' = 0
    /\ invalid_count' = 0
    /\ IF ~dir_exists
       THEN json_files' = <<>> /\ pc' = "main"
       ELSE \E listing \in glob(fs) :
               LET files == exclude_index(listing) IN
               IF files = <<>>
               THEN json_files' = <<>> /\ pc' = "main"
               ELSE json_files' = sorted(files) /\ pc' = "loop"
    /\ UNCHANGED <<dir_exists, fs, since_run, data, vresult>>

\* lines 84-138: one iteration of the loop
AnalyzeFile ==
    /\ pc = "loop"
    /\ LET file == json_files[idx + 1]
           out == analyze(file, fs[file])
       IN IF out.exc = "none"
          THEN /\ detected_sets' = Append(detected_sets, out.rec)
               /\ idx' = idx + 1
               /\ pc' = IF idx + 1 = Len(json_files) THEN "main" ELSE "loop"
               /\ escaped' = escaped
          ELSE /\ escaped' = TRUE
               /\ pc' = "done"
               /\ UNCHANGED <<detected_sets, idx>>
    /\ UNCHANGED <<dir_exists, fs, json_files, valid_count, invalid_count,
                   write_outcome, written, fs_before, since_run, data, vresult>>

\* lines 170-171
ReturnEmpty ==
    /\ pc = "main" /\ detected_sets = <<>>
    /\ pc' = "done"
    /\ UNCHANGED <<dir_exists, fs, run_locals, since_run, data, vresult>>

\* lines 178-197
Summarize ==
    /\ pc = "main" /\ detected_sets # <<>>
    /\ valid_count' = count_valid(detected_sets)
    /\ invalid_count' = Len(detected_sets) - count_valid(detected_sets)
    /\ pc' = "update"
    /\ UNCHANGED <<dir_exists, fs, json_files, idx, detected_sets, write_outcome,
                   written, escaped, fs_before, since_run, data, vresult>>

\* lines 143-158.  A write that fails either fails in open (the file is as it was)
\* or after open truncated the file (what was flushed does not parse); both are
\* caught by the except clause of line 157.
UpdateIndex ==
    /\ pc = "update"
    /\ LET valid_files == valid_files_of(detected_sets) IN
       IF ~has_valid_files(valid_files)
       THEN UNCHANGED <<fs, write_outcome, written>>
       ELSE \E result \in {"ok", "open_failed", "write_failed"} :
               /\ fs' = IF result = "ok"
                        THEN [fs EXCEPT ![INDEX_FILE] = Json(json_dump_index(valid_files))]
                        ELSE IF result = "write_failed"
                        THEN [fs EXCEPT ![INDEX_FILE] = Malformed]
                        ELSE fs
               /\ write_outcome' = IF result = "ok" THEN "ok" ELSE "failed"
               /\ written' = IF result = "ok" THEN valid_files ELSE <<>>
    /\ pc' = "done"
    /\ UNCHANGED <<dir_exists, json_files, idx, detected_sets, valid_count,
                   invalid_count, escaped, fs_before, since_run, data, vresult>>

\* main returns; the next run starts from scratch
Return ==
    /\ pc = "done"
    /\ pc' = "idle"
    /\ since_run' = IF write_outcome = "failed" \/ escaped THEN "failed" ELSE "ok"
    /\ json_files' = <<>>
    /\ idx' = 0
    /\ detected_sets' = <<>>
    /\ valid_count' = 0
    /\ invalid_count' = 0
    /\ write_outcome' = "none"
    /\ written' = <<>>
    /\ escaped' = FALSE
    /\ fs_before' = [n \in FileNames |-> Absent]
    /\ UNCHANGED <<dir_exists, fs, data, vresult>>

Next ==
    \/ MakeDir
    \/ RemoveDir
    \/ WriteFile
    \/ DeleteFile
    \/ Detect
    \/ AnalyzeFile
    \/ ReturnEmpty
    \/ Summarize
    \/ UpdateIndex
    \/ Return

Spec == Init /\ [][Next]_vars

(***************************************************************************)
(* The validator alone, applied to each document of Docs(MaxElems).        *)
(***************************************************************************)
InitValidate ==
    /\ dir_exists = FALSE
    /\ fs = [n \in FileNames |-> Absent]
    /\ pc = "validate"
    /\ json_files = <<>>
    /\ idx = 0
    /\ detected_sets = <<>>
    /\ valid_count = 0
    /\ invalid_count = 0
    /\ write_outcome = "none"
    /\ written = <<>>
    /\ escaped = FALSE
    /\ fs_before = [n \in FileNames |-> Absent]
    /\ since_run = "none"
    /\ data \in Docs(MaxElems)
    /\ vresult = NoResult

Validate ==
    /\ pc = "validate"
    /\ vresult' = validate_set_structure(data)
    /\ pc' = "validated"
    /\ UNCHANGED <<dir_exists, fs, run_locals, since_run, data>>

NextValidate == Validate

SpecValidate == InitValidate /\ [][NextValidate]_vars

(***************************************************************************)
(* The data model of a Set document, stated on its own (spec section 3).   *)
(***************************************************************************)
WellFormedQuestion(q) ==
    /\ q.t = "dict"
    /\ "text" \in DOMAIN q.f
    /\ q.f["text"].t = "str"

WellFormedCard(c) ==
    /\ c.t = "dict"
    /\ "answer" \in DOMAIN c.f
    /\ "questions" \in DOMAIN c.f
    /\ c.f["questions"].t = "list"
    /\ \A m \in 1..Len(c.f["questions"].items) : WellFormedQuestion(c.f["questions"].items[m])

WellFormedSet(D) ==
    /\ D.t = "dict"
    /\ "name" \in DOMAIN D.f
    /\ D.f["name"].t = "str"
    /\ "cards" \in DOMAIN D.f
    /\ D.f["cards"].t = "list"
    /\ \A k \in 1..Len(D.f["cards"].items) : WellFormedCard(D.f["cards"].items[k])

\* the defects of an object document, each as the message that reports it; cards
\* and questions are numbered from 1
QuestionDefects(k, m, q) ==
    LET at == "Card " \o ToString(k) \o ", Question " \o ToString(m) IN
    IF q.t # "dict" THEN {at \o " is not an object"}
    ELSE IF "text" \notin DOMAIN q.f THEN {at \o " missing 'text' field"}
    ELSE IF q.f["text"].t # "str" THEN {at \o " 'text' must be a string"}
    ELSE {}

CardDefects(k, c) ==
    LET at == "Card " \o ToString(k) IN
    IF c.t # "dict" THEN {at \o " is not an object"}
    ELSE (IF "answer" \notin DOMAIN c.f THEN {at \o " missing 'answer' field"} ELSE {})
         \cup
         (IF "questions" \notin DOMAIN c.f THEN {at \o " missing 'questions' field"}
          ELSE IF c.f["questions"].t # "list" THEN {at \o " 'questions' must be an array"}
          ELSE UNION { QuestionDefects(k, m, c.f["questions"].items[m]) :
                          m \in 1..Len(c.f["questions"].items) })

Defects(D) ==
    (IF "name" \notin DOMAIN D.f THEN {"Missing 'name' field"}
     ELSE IF D.f["name"].t # "str" THEN {"'name' must be a string"}
     ELSE {})
    \cup
    (IF "cards" \notin DOMAIN D.f THEN {"Missing 'cards' field"}
     ELSE IF D.f["cards"].t # "list" THEN {"'cards' must be an array"}
     ELSE UNION { CardDefects(k, D.f["cards"].items[k]) : k \in 1..Len(D.f["cards"].items) })

Range(s) == {s[k] : k \in 1..Len(s)}

(***************************************************************************)
(* Claims about the validator, checked under SpecValidate.                 *)
(***************************************************************************)
\* C1: validate_set_structure(D) returns valid=true exactly for the documents D
\* that are an object with a string 'name' and a 'cards' array whose elements are
\* objects with an 'answer' key and a 'questions' array of objects with a string
\* 'text'; and the flag is true exactly when the error list is empty.
C1_ValidIffWellFormed ==
    pc = "validated" =>
        /\ vresult.is_valid <=> WellFormedSet(data)
        /\ vresult.is_valid <=> vresult.errors = <<>>

\* a document of two cards, each with an 'answer' of null and one question, is
\* accepted
C1_Witness ==
    /\ pc = "validated"
    /\ vresult.is_valid
    /\ Len(data.f["cards"].items) = 2
    /\ \A k \in 1..2 : Len(data.f["cards"].items[k].f["questions"].items) = 1

\* C8: validation of an object document is exhaustive: the error list holds one
\* entry for every defect of the document and nothing else (a defect of 'name', of
\* a card or of a question suppresses no later check), with cards and questions
\* numbered from 1 and the questions of each card numbered from 1 again.
C8_Exhaustive ==
    (pc = "validated" /\ data.t = "dict") =>
        /\ Range(vresult.errors) = Defects(data)
        /\ Len(vresult.errors) = Cardinality(Defects(data))

\* a document without 'name' whose first card is not an object and whose second
\* card lacks 'answer' and has a defective first question
C8_Witness ==
    /\ pc = "validated"
    /\ data.t = "dict"
    /\ Len(vresult.errors) = 4
    /\ vresult.errors[1] = "Missing 'name' field"
    /\ vresult.errors[2] = "Card 1 is not an object"
    /\ vresult.errors[3] = "Card 2 missing 'answer' field"
    /\ vresult.errors[4] = "Card 2, Question 1 missing 'text' field"

(***************************************************************************)
(* Claims about the scan, the manifest and the driver, checked under Spec. *)
(* A run has completed in the states with pc = "done".                     *)
(***************************************************************************)
\* the filenames a file's contents list under "files"
ManifestFiles(c) ==
    IF c.t = "json" /\ c.v.t = "dict" /\ "files" \in DOMAIN c.v.f /\ c.v.f["files"].t = "list"
    THEN [k \in 1..Len(c.v.f["files"].items) |-> c.v.f["files"].items[k].s]
    ELSE <<>>

\* n names a file of the directory whose current contents validate
Revalidates(n) ==
    /\ n \in FileNames
    /\ fs[n].t = "json"
    /\ validate_set_structure(fs[n].v).is_valid

RECURSIVE ValidNames(_)
ValidNames(records) ==
    IF records = <<>> THEN <<>>
    ELSE (IF Head(records).valid THEN <<Head(records).file>> ELSE <<>>)
         \o ValidNames(Tail(records))

NoValidResult == \A k \in 1..Len(detected_sets) : ~detected_sets[k].valid

C3_IndexIsValidFilesInOrder ==
    (pc = "done" /\ write_outcome = "ok") =>
        LET L == ManifestFiles(fs[INDEX_FILE]) IN
        /\ fs[INDEX_FILE].t = "json"
        /\ fs[INDEX_FILE].v.t = "dict"
        /\ DOMAIN fs[INDEX_FILE].v.f = {"files"}
        /\ L = ValidNames(detected_sets)
        /\ Range(L) = {n \in SetNames : fs[n].t = "json" /\ WellFormedSet(fs[n].v)}
        /\ \A k, l \in 1..Len(L) : k < l => seq_less(Chars(L[k]), Chars(L[l]))

\* index.json held a hand-written manifest in another order, a.json is invalid
\* and b.json valid: the run leaves exactly b.json
C3_Witness ==
    /\ pc = "done"
    /\ write_outcome = "ok"
    /\ ManifestFiles(fs_before[INDEX_FILE]) = <<"b.json", "a.json">>
    /\ ~detected_sets[1].valid
    /\ ManifestFiles(fs[INDEX_FILE]) = <<"b.json">>

\* C4: for every file that parses as JSON and is rejected by the validator, a
\* document that is not an object included, the result record has valid=false,
\* errors equal to the validator's error list and name equal to the document's
\* 'name' if present and "Unknown" otherwise.
C4_RejectedRecord ==
    \A k \in 1..Len(detected_sets) :
        LET rec == detected_sets[k]
            c == fs[rec.file]
        IN (c.t = "json" /\ ~validate_set_structure(c.v).is_valid) =>
              /\ rec.valid = FALSE
              /\ rec.errors = validate_set_structure(c.v).errors
              /\ rec.name = IF c.v.t = "dict" /\ "name" \in DOMAIN c.v.f
                            THEN c.v.f["name"] ELSE Unknown

\* C5: once the scan has returned, there is exactly one record per *.json file of
\* the directory other than index.json, in ascending filename order, each valid
\* exactly when its own file parses and is well formed: a failure on one file
\* costs the later files nothing.
C5_OneRecordPerFile ==
    pc \in {"main", "update", "done"} =>
        LET present == {n \in SetNames : fs[n] # Absent} IN
        /\ Len(detected_sets) = Cardinality(present)
        /\ \A k \in 1..Len(detected_sets) :
              /\ detected_sets[k].file \in present
              /\ detected_sets[k].file # "index.json"
              /\ detected_sets[k].valid <=>
                    (fs[detected_sets[k].file].t = "json"
                        /\ WellFormedSet(fs[detected_sets[k].file].v))
        /\ \A k, l \in 1..Len(detected_sets) :
              k < l => seq_less(Chars(detected_sets[k].file), Chars(detected_sets[l].file))

\* a.json is unreadable, b.json is valid, index.json and notes.txt exist
C5_Witness ==
    /\ pc = "main"
    /\ fs["a.json"] = Unreadable
    /\ fs[INDEX_FILE] # Absent
    /\ fs["notes.txt"] # Absent
    /\ Len(detected_sets) = 2
    /\ ~detected_sets[1].valid
    /\ detected_sets[2].valid

C7_NoValidNoWrite ==
    (pc = "done" /\ NoValidResult) =>
        /\ fs = fs_before
        /\ write_outcome = "none"
        /\ written = <<>>

\* both sets are invalid and index.json exists
C7_Witness ==
    /\ pc = "done"
    /\ Len(detected_sets) = 2
    /\ NoValidResult
    /\ fs[INDEX_FILE] # Absent

\* the record of every file whose document validates is the valid record
ValidRecordsFaithful ==
    \A k \in 1..Len(detected_sets) :
        LET rec == detected_sets[k]
            c == fs[rec.file]
        IN (c.t = "json" /\ validate_set_structure(c.v).is_valid) =>
              /\ rec.valid = TRUE
              /\ rec.name = c.v.f["name"]
              /\ rec.card_count = Len(c.v.f["cards"].items)
              /\ rec.exported_at = IF "exportedAt" \in DOMAIN c.v.f
                                   THEN c.v.f["exportedAt"] ELSE Str("Not specified")
              /\ "errors" \notin DOMAIN rec

\* the summary: total = valid + invalid, each the number of such records
SummaryCounts ==
    pc \in {"update", "done"} =>
        /\ valid_count = Cardinality({k \in 1..Len(detected_sets) : detected_sets[k].valid})
        /\ invalid_count = Cardinality({k \in 1..Len(detected_sets) : ~detected_sets[k].valid})
        /\ Len(detected_sets) = valid_count + invalid_count

C10_NoFailureIsFatal ==
    /\ [](~escaped)
    /\ [](pc \in {"loop", "main", "update", "done"} =>
             ENABLED (AnalyzeFile \/ ReturnEmpty \/ Summarize \/ UpdateIndex \/ Return))
    /\ [][pc = "update" =>
             /\ detected_sets' = detected_sets
             /\ valid_count' = valid_count
             /\ invalid_count' = invalid_count]_vars

\* a.json could not be read, b.json is not an object, and the run completed
C10_Witness ==
    /\ pc = "done"
    /\ ~escaped
    /\ fs["a.json"] = Unreadable
    /\ fs["b.json"] = Json(Arr(<<>>))
    /\ Len(detected_sets) = 2

====
